---- MODULE Spec2Model ----
(***************************************************************************)
(* Model of the glass-product database updater                             *)
(* (Molten/Tools/Scraping Tools/update_database.py and the combined        *)
(* scraper that feeds it).  One run of update_database.main is one action; *)
(* the state between runs is what the run leaves on disk.                  *)
(***************************************************************************)
EXTENDS Integers, Sequences, FiniteSets, TLC

\* ------------------------------------------------------------------ bounds
MaxBatch == 2       \* rows in one scraped CSV
MaxDay == 2         \* calendar days a behaviour spans
MaxWork == 5        \* runs made plus CSV rows read over a behaviour
MaxListing == 1     \* rows one manufacturer's site lists in one scrape
MaxTaken == 28      \* IDs already assigned next to a candidate, less one
MaxRows == 3        \* rows of a list handed to a duplicate pass

\* ------------------------------------------------------------ value domains
Manufacturers == {"BB", "OR"}
Codes == {"001", "002"}
Names == {"Blue"}
Urls == {"uA", "uB"}

NoDate == 0                         \* Python None in a date field
Dates == 1..MaxDay

\* A CSV row as csv.DictReader yields it: a mapping from column name to string.
\* The (manufacturer, code) pairs the scrapers emit.
Catalog == {<<"BB", "001">>, <<"BB", "002">>, <<"OR", "001">>}
Rows ==
    {row \in [manufacturer : Manufacturers, code : Codes, name : Names,
              manufacturer_url : Urls] : <<row.manufacturer, row.code>> \in Catalog}

RECURSIVE SeqsUpTo(_, _)
SeqsUpTo(S, n) ==
    IF n = 0 THEN {<<>>}
    ELSE LET shorter == SeqsUpTo(S, n - 1)
         IN  shorter \cup {Append(s, x) : s \in {t \in shorter : Len(t) = n - 1}, x \in S}

Batches == SeqsUpTo(Rows, MaxBatch)

\* scraped_manufacturers: None, or a list of manufacturer codes (only membership is used)
NoneScraped == [given |-> FALSE, mfrs |-> {}]
ListScraped(s) == [given |-> TRUE, mfrs |-> s]
\* (scraped_manufacturers, bot_protected_manufacturers) pairs a call is made with
ScopeArgs ==
    {<<NoneScraped, {}>>, <<ListScraped({"BB"}), {}>>,
     <<NoneScraped, {"OR"}>>, <<ListScraped({"BB"}), {"BB"}>>}

ZeroStats == [new |-> 0, updated |-> 0, discontinued |-> 0, unchanged |-> 0]

\* ------------------------------------------------------------------ state
VARIABLES
    disk,            \* glass_database.json: NoFile or [exists, products]
    excluded_urls,   \* excluded_urls.txt as _load_excluded_urls reads it
    sku_overrides,   \* sku_overrides.txt as _load_sku_overrides reads it: url -> sku
    today,           \* datetime.now() as a day number
    work,            \* runs made plus CSV rows read so far
    pc,              \* "idle" between runs, "exited" while the run's output is inspected
    products,        \* db.data['products'] of the run's ProductDatabase object at exit
    export_file,     \* the JSON artifact at the run's --export path
    last             \* the run that just exited: its arguments, the store it started
                     \* from, its exit code and what it did

vars == <<disk, excluded_urls, sku_overrides, today, work, pc, products, export_file, last>>

NoFile == [exists |-> FALSE]
EmptyMap == [k \in {} |-> NoDate]

\* ---------------------------------------------------------------- helpers
get_product_key(manufacturer, code) == manufacturer \o ":" \o code

RowKey(row) == get_product_key(row.manufacturer, row.code)

\* Python's string order on the keys of the model, as sorted() uses it.
KeyOrder ==
    <<"BB:001", "BB:002", "BB:2678167", "BB:2912507", "BB:5620400", "OR:001", "OR:002">>
SortedKeys(keys) == SelectSeq(KeyOrder, LAMBDA k : k \in keys)

\* row.get('manufacturer_url', '')
RowUrl(row) == IF "manufacturer_url" \in DOMAIN row THEN row.manufacturer_url ELSE ""

\* A filter that lets every row through.
KeepsExcluded(excl, rows) == rows

filter_excluded_urls(excl, rows) ==
    IF excl = {} THEN rows
    ELSE SelectSeq(rows, LAMBDA row : RowUrl(row) \notin excl)

apply_sku_overrides(ovr, rows) ==
    IF DOMAIN ovr = {} THEN rows
    ELSE [i \in 1..Len(rows) |->
            IF RowUrl(rows[i]) \in DOMAIN ovr
            THEN [rows[i] EXCEPT !.code = ovr[RowUrl(rows[i])]]
            ELSE rows[i]]

RECURSIVE DedupLoop(_, _, _)
DedupLoop(rows, seen_keys, deduplicated) ==
    IF rows = <<>> THEN deduplicated
    ELSE LET row == Head(rows)
             key == RowKey(row)
             url == RowUrl(row)
         IN  IF key \notin DOMAIN seen_keys
             THEN DedupLoop(Tail(rows), (key :> url) @@ seen_keys, Append(deduplicated, row))
             ELSE IF seen_keys[key] = url /\ url # ""
                  THEN DedupLoop(Tail(rows), seen_keys, deduplicated)
                  ELSE DedupLoop(Tail(rows), seen_keys, Append(deduplicated, row))

deduplicate_same_url(rows) == DedupLoop(rows, EmptyMap, <<>>)

\* A detector that never reports a duplicate.
NoDuplicatesSeen(rows) == FALSE

\* A detector that reports only keys listed with two different URLs.
DistinctUrlsOnly(rows) ==
    \E i, j \in 1..Len(rows) :
        i < j /\ RowKey(rows[i]) = RowKey(rows[j]) /\ RowUrl(rows[i]) # RowUrl(rows[j])

\* A detector that compares each row with the next one only.
AdjacentDuplicatesOnly(rows) ==
    \E i \in 1..(Len(rows) - 1) : RowKey(rows[i]) = RowKey(rows[i + 1])

\* has_duplicates of detect_duplicates: some key collected more than one row
detect_duplicates(rows) ==
    \E i, j \in 1..Len(rows) : i < j /\ RowKey(rows[i]) = RowKey(rows[j])

Preprocess(excl, ovr, rows) ==
    deduplicate_same_url(apply_sku_overrides(ovr, filter_excluded_urls(excl, rows)))

\* A creation that does not stamp the day the product was seen.
RecordNeverSeen(row, date_added) ==
    row @@ [status |-> "available", added_date |-> date_added,
            last_seen |-> NoDate, discontinued_date |-> NoDate]

create_product_record(row, date_added) ==
    row @@ [status |-> "available", added_date |-> date_added,
            last_seen |-> date_added, discontinued_date |-> NoDate]

\* A comparison that finds no field changed.
NoChangedFields(existing, row) == {}

ChangedFields(existing, row) ==
    {f \in DOMAIN row : f \in DOMAIN existing /\ existing[f] # row[f]}

\* A reactivation that leaves the record as it found it.
StaysDiscontinued(product) == product

\* A reactivation that leaves the discontinued date in place.
ReactivatedKeepsDate(product) == [product EXCEPT !.status = "available"]

\* A reactivation that also stamps the record as added on the day it came back.
ReactivatedAsNew(product) ==
    [product EXCEPT !.status = "available", !.discontinued_date = NoDate,
                    !.added_date = product.last_seen]

\* "Product was discontinued, now it's back!": the two assignments of the branch
Reactivated(product) ==
    [product EXCEPT !.status = "available", !.discontinued_date = NoDate]

\* One iteration of the "Process new/updated products" loop.
ProcessRow(acc, row, day) ==
    LET key == RowKey(row)
        prods == acc.products
        stats == acc.stats
    IN  IF key \notin DOMAIN prods
        THEN [products |-> (key :> create_product_record(row, day)) @@ prods,
              stats |-> [stats EXCEPT !.new = @ + 1],
              changes |-> Append(acc.changes, <<"NEW", key>>)]
        ELSE LET existing == prods[key]
                 changed == ChangedFields(existing, row)
                 written == IF changed # {} THEN row @@ existing ELSE existing
                 seen == [written EXCEPT !.last_seen = day]
                 was_disc == existing.status = "discontinued"
                 final == IF was_disc THEN Reactivated(seen) ELSE seen
             IN  [products |-> [prods EXCEPT ![key] = final],
                  stats |-> IF changed # {} \/ was_disc
                            THEN [stats EXCEPT !.updated = @ + 1]
                            ELSE [stats EXCEPT !.unchanged = @ + 1],
                  changes |-> IF was_disc THEN Append(acc.changes, <<"REACTIVATED", key>>)
                              ELSE IF changed # {}
                                   THEN Append(acc.changes, <<"UPDATED", key, changed>>)
                                   ELSE acc.changes]

RECURSIVE ProcessRows(_, _, _)
ProcessRows(acc, rows, day) ==
    IF rows = <<>> THEN acc
    ELSE ProcessRows(ProcessRow(acc, Head(rows), day), Tail(rows), day)

\* product.get('manufacturer', '')
ProductMfr(product) == IF "manufacturer" \in DOMAIN product THEN product.manufacturer ELSE ""

\* Sweep guards with one of the four conditions left out.
SweepHitsUnscoped(key, product, new_keys, scraped, bot) ==
    /\ ProductMfr(product) \notin bot
    /\ key \notin new_keys
    /\ product.status = "available"

SweepHitsBotIncluded(key, product, new_keys, scraped, bot) ==
    /\ ~(scraped.given /\ ProductMfr(product) \notin scraped.mfrs)
    /\ key \notin new_keys
    /\ product.status = "available"

SweepHitsAnyStatus(key, product, new_keys, scraped, bot) ==
    /\ ~(scraped.given /\ ProductMfr(product) \notin scraped.mfrs)
    /\ ProductMfr(product) \notin bot
    /\ key \notin new_keys

\* The guard of the discontinued sweep for one stored record.
SweepHits(key, product, new_keys, scraped, bot) ==
    /\ ~(scraped.given /\ ProductMfr(product) \notin scraped.mfrs)
    /\ ProductMfr(product) \notin bot
    /\ key \notin new_keys
    /\ product.status = "available"

\* A sweep that marks the records it hits without dating them.
SweepLeavesDate(prods, new_keys, scraped, bot, day) ==
    [key \in DOMAIN prods |->
        IF SweepHits(key, prods[key], new_keys, scraped, bot)
        THEN [prods[key] EXCEPT !.status = "discontinued"]
        ELSE prods[key]]

\* A sweep that removes the records it hits.
SweepDeletes(prods, new_keys, scraped, bot, day) ==
    [key \in {k \in DOMAIN prods : ~SweepHits(k, prods[k], new_keys, scraped, bot)} |->
        prods[key]]

Sweep(prods, new_keys, scraped, bot, day) ==
    [key \in DOMAIN prods |->
        IF SweepHits(key, prods[key], new_keys, scraped, bot)
        THEN [prods[key] EXCEPT !.status = "discontinued", !.discontinued_date = day]
        ELSE prods[key]]

\* update_from_scraped_data up to the summary: the returned stats (ok = FALSE for
\* the (None, duplicate_report) return) and the products map it leaves in memory.
Reconcile(prods, csv, day, scraped, bot, excl, ovr) ==
    LET new_products == Preprocess(excl, ovr, csv)
    IN  IF detect_duplicates(new_products)
        THEN [ok |-> FALSE, products |-> prods, stats |-> ZeroStats, changes |-> <<>>]
        ELSE LET new_keys == {RowKey(new_products[i]) : i \in 1..Len(new_products)}
                 acc == ProcessRows([products |-> prods, stats |-> ZeroStats, changes |-> <<>>],
                                    new_products, day)
                 swept == {k \in DOMAIN acc.products :
                              SweepHits(k, acc.products[k], new_keys, scraped, bot)}
                 swept_log == [i \in 1..Len(SortedKeys(swept)) |->
                                  <<"DISCONTINUED", SortedKeys(swept)[i]>>]
             IN  [ok |-> TRUE,
                  products |-> Sweep(acc.products, new_keys, scraped, bot, day),
                  stats |-> [acc.stats EXCEPT !.discontinued = Cardinality(swept)],
                  changes |-> acc.changes \o swept_log]



\* ------------------------------------------------------------- stable IDs
\* base62_chars: the alphabet generate_stable_id indexes.
Alphabet ==
    <<"0", "1", "2", "3", "4", "5", "6", "7", "8", "9",
      "A", "B", "C", "D", "E", "F", "G", "H", "J", "K", "L", "M", "N", "P", "Q", "R",
      "S", "T", "U", "V", "W", "X", "Y", "Z",
      "a", "b", "c", "d", "e", "f", "g", "h", "j", "k", "m", "n", "p", "q", "r", "s",
      "t", "u", "v", "w", "x", "y", "z">>
Base == Len(Alphabet)

\* base62_chars.index(ch), 0-based
AlphabetIndex(ch) == (CHOOSE i \in 1..Base : Alphabet[i] = ch) - 1

\* hashlib.sha256("manufacturer:code").digest()[:4] for the keys of the model
Sha256Prefix(combined) ==
    CASE combined = "BB:001" -> <<161, 50, 66, 122>>
      [] combined = "BB:002" -> <<15, 199, 248, 199>>
      [] combined = "OR:001" -> <<124, 50, 138, 169>>
      [] combined = "OR:002" -> <<159, 7, 162, 9>>
      [] combined = "BB:2678167" -> <<44, 20, 122, 164>>
      [] combined = "BB:2912507" -> <<44, 20, 122, 164>>
      [] combined = "BB:5620400" -> <<44, 20, 122, 165>>

\* The four bytes read with the last one most significant.
FromBytesLittle(b) == <<b[4] * 256 + b[3], b[2] * 256 + b[1]>>

\* int.from_bytes(hash_bytes[:4], 'big') as two 16-bit limbs <<high, low>>: the
\* 32-bit value does not fit the model checker's integers.
FromBytesBig(b) == <<b[1] * 256 + b[2], b[3] * 256 + b[4]>>

\* num % Base and num // Base on the two limbs
LimbMod(num) == ((num[1] % Base) * 65536 + num[2]) % Base
LimbDiv(num) == <<num[1] \div Base, ((num[1] % Base) * 65536 + num[2]) \div Base>>

\* for _ in range(6): stable_id = base62_chars[num % 57] + stable_id; num //= 57
RECURSIVE EncodeLoop(_, _, _)
EncodeLoop(num, stable_id, n) ==
    IF n = 0 THEN stable_id
    ELSE EncodeLoop(LimbDiv(num), <<Alphabet[LimbMod(num) + 1]>> \o stable_id, n - 1)

\* The 6-character candidate of a digest
CandidateOf(hash_bytes) == EncodeLoop(FromBytesBig(hash_bytes), <<>>, 6)

HashCandidate(manufacturer, code) ==
    CandidateOf(Sha256Prefix(get_product_key(manufacturer, code)))

\* A resolution that hands back the candidate whatever is assigned.
KeepsCandidate(stable_id, collision_counter, existing_ids) ==
    [raised |-> FALSE, id |-> stable_id]

\* while stable_id in existing_ids: ... ; raised = the ValueError
RECURSIVE CollisionLoop(_, _, _)
CollisionLoop(stable_id, collision_counter, existing_ids) ==
    IF stable_id \notin existing_ids THEN [raised |-> FALSE, id |-> stable_id]
    ELSE LET counter == collision_counter + 1
             idx == AlphabetIndex(stable_id[Len(stable_id)])
             bumped == [stable_id EXCEPT ![Len(stable_id)] =
                            Alphabet[((idx + counter) % Base) + 1]]
         IN  IF counter > Base THEN [raised |-> TRUE, id |-> bumped]
             ELSE CollisionLoop(bumped, counter, existing_ids)

\* generate_stable_id from the digest on
generate_from_digest(hash_bytes, existing_ids) ==
    CollisionLoop(CandidateOf(hash_bytes), 0, existing_ids)

generate_stable_id(manufacturer, code, existing_ids) ==
    CollisionLoop(HashCandidate(manufacturer, code), 0, existing_ids)

\* A test that finds no record with an ID.
NeverHasStableId(product) == FALSE

\* 'stable_id' in product and product['stable_id']
HasStableId(product) == "stable_id" \in DOMAIN product /\ product.stable_id # <<>>

RECURSIVE AssignLoop(_, _, _, _, _)
AssignLoop(keys, prods, existing_ids, assigned_count, collision_count) ==
    IF keys = <<>>
    THEN [raised |-> FALSE, products |-> prods, assigned |-> assigned_count,
          collisions |-> collision_count]
    ELSE LET key == Head(keys)
             product == prods[key]
         IN  IF HasStableId(product)
             THEN AssignLoop(Tail(keys), prods, existing_ids, assigned_count, collision_count)
             ELSE LET original == generate_stable_id(product.manufacturer, product.code, {})
                      g == generate_stable_id(product.manufacturer, product.code, existing_ids)
                  IN  IF g.raised
                      THEN [raised |-> TRUE, products |-> prods, assigned |-> assigned_count,
                            collisions |-> collision_count]
                      ELSE AssignLoop(Tail(keys),
                                      [prods EXCEPT ![key] = ("stable_id" :> g.id) @@ product],
                                      existing_ids \cup {g.id},
                                      assigned_count + 1,
                                      IF g.id # original.id THEN collision_count + 1
                                      ELSE collision_count)

assign_stable_ids(prods) ==
    AssignLoop(SortedKeys(DOMAIN prods), prods,
               {prods[k].stable_id : k \in {x \in DOMAIN prods : HasStableId(prods[x])}},
               0, 0)

\* The keys in the order they are handed over.
Unsorted(insertion_order) == insertion_order

\* sorted(self.data['products'].keys()): the dict's keys, which come in insertion
\* order, put in string order
sorted_keys(insertion_order) ==
    SortedKeys({insertion_order[i] : i \in 1..Len(insertion_order)})

\* assign_stable_ids on a products dict whose keys were inserted in the given order
assign_stable_ids_from(insertion_order, prods) ==
    AssignLoop(sorted_keys(insertion_order), prods,
               {prods[k].stable_id : k \in {x \in DOMAIN prods : HasStableId(prods[x])}},
               0, 0)

\* ----------------------------------------------------------------- export
MetadataFields == {"status", "added_date", "last_seen", "discontinued_date"}

\* Python strings whose characters matter are sequences of one-character strings.
Quote == "\""
Apostrophe == "'"
Comma == ","
Space == " "
Whitespace == {Space}

Aqua == <<"a", "q", "u", "a">>
Blue == <<"b", "l", "u", "e">>
Azure == <<"a", "z", "u", "r", "e">>
Unknown == <<"u", "n", "k", "n", "o", "w", "n">>
EmptyString == <<>>

\* separator.join(parts)
RECURSIVE Join(_, _)
Join(separator, parts) ==
    IF parts = <<>> THEN EmptyString
    ELSE IF Len(parts) = 1 THEN parts[1]
    ELSE parts[1] \o separator \o Join(separator, Tail(parts))

\* The tail of combine_tags: the tags found, sorted, each in double quotes, joined
\* by comma and space; the quoted sentinel when none was found.
FormatTags(sorted_tags) ==
    IF sorted_tags # <<>>
    THEN Join(<<Comma, Space>>,
              [i \in 1..Len(sorted_tags) |-> <<Quote>> \o sorted_tags[i] \o <<Quote>>])
    ELSE <<Quote>> \o Unknown \o <<Quote>>

\* string.split(separator) for a one-character separator
RECURSIVE SplitLoop(_, _, _, _)
SplitLoop(string, separator, pieces, piece) ==
    IF string = <<>> THEN Append(pieces, piece)
    ELSE IF Head(string) = separator
    THEN SplitLoop(Tail(string), separator, Append(pieces, piece), EmptyString)
    ELSE SplitLoop(Tail(string), separator, pieces, Append(piece, Head(string)))

split(string, separator) == SplitLoop(string, separator, <<>>, EmptyString)

\* string.lstrip(chars), string.rstrip(chars), string.strip(chars)
RECURSIVE lstrip(_, _)
lstrip(string, chars) ==
    IF string # <<>> /\ Head(string) \in chars THEN lstrip(Tail(string), chars) ELSE string

RECURSIVE rstrip(_, _)
rstrip(string, chars) ==
    IF string # <<>> /\ string[Len(string)] \in chars
    THEN rstrip(SubSeq(string, 1, Len(string) - 1), chars)
    ELSE string

strip(string, chars) == rstrip(lstrip(string, chars), chars)

\* tag.strip().strip('"').strip("'")
Unquote(tag) == strip(strip(strip(tag, Whitespace), {Quote}), {Apostrophe})

\* A filter that lets the sentinel through.
KeepsUnknown(tags_str) ==
    IF tags_str # EmptyString
    THEN LET pieces == split(tags_str, Comma)
             tags_list == [i \in 1..Len(pieces) |-> Unquote(pieces[i])]
         IN  SelectSeq(tags_list, LAMBDA tag : tag # EmptyString)
    ELSE <<>>

\* The tags conversion of export_to_json
TagsList(tags_str) ==
    IF tags_str # EmptyString
    THEN LET pieces == split(tags_str, Comma)
             tags_list == [i \in 1..Len(pieces) |-> Unquote(pieces[i])]
         IN  SelectSeq(tags_list, LAMBDA tag : tag # EmptyString /\ tag # Unknown)
    ELSE <<>>

\* The synonyms conversion of export_to_json
SynonymsList(synonyms_str) ==
    IF synonyms_str # EmptyString
    THEN LET pieces == split(synonyms_str, Comma)
             synonyms_list == [i \in 1..Len(pieces) |-> Unquote(pieces[i])]
         IN  SelectSeq(synonyms_list, LAMBDA syn : syn # EmptyString)
    ELSE <<>>

\* product_copy of export_to_json: the two string columns, where the record has
\* them, become arrays; the tracking fields go when strip_metadata is set.
ExportRecord(product, strip_metadata) ==
    LET product_copy ==
            [f \in DOMAIN product |->
                IF f = "tags" THEN TagsList(product[f])
                ELSE IF f = "synonyms" THEN SynonymsList(product[f])
                ELSE product[f]]
    IN  IF strip_metadata
        THEN [f \in DOMAIN product_copy \ MetadataFields |-> product_copy[f]]
        ELSE product_copy

\* An export that leaves discontinued records out whatever it is asked.
OmitsDiscontinued(prods, include_discontinued, strip_metadata) ==
    LET kept == SortedKeys({k \in DOMAIN prods : prods[k].status # "discontinued"})
    IN  [exists |-> TRUE,
         item_count |-> Len(kept),
         glassitems |-> [i \in 1..Len(kept) |-> ExportRecord(prods[kept[i]], strip_metadata)]]

\* export_to_json: the artifact it writes.  Items are listed by manufacturer and,
\* within one manufacturer (the rows of the model carry one name), by key; the
\* code's stable sort leaves such ties in insertion order.
export_to_json(prods, include_discontinued, strip_metadata) ==
    LET kept == SortedKeys({k \in DOMAIN prods :
                    include_discontinued \/ prods[k].status # "discontinued"})
    IN  [exists |-> TRUE,
         item_count |-> Len(kept),
         glassitems |-> [i \in 1..Len(kept) |-> ExportRecord(prods[kept[i]], strip_metadata)]]

\* save_database: overwrites the whole file with the in-memory data.
SavedFile(prods) == [exists |-> TRUE, products |-> prods]

\* _load_database
LoadDatabase(file) == IF file.exists THEN file.products ELSE EmptyMap

\* A save that ignores the dry-run flag.
SavesAlways(file, prods, dry_run) == SavedFile(prods)

\* The end of update_from_scraped_data: `if not dry_run: self.save_database()`
StoreAfterUpdate(file, prods, dry_run) == IF dry_run THEN file ELSE SavedFile(prods)

\* ------------------------------------------------------- combined scraper
\* MANUFACTURERS, in insertion order (the two manufacturers the model keeps)
Registry == <<"BB", "OR">>

\* scraper_config.BOT_PROTECTION_ERROR_CODES; is_bot_protection_error on the
\* HTTP status of the error (its message test is left out)
BOT_PROTECTION_ERROR_CODES == {403, 406, 429}
is_bot_protection_error(code) == code \in BOT_PROTECTION_ERROR_CODES

\* What a manufacturer's site answers during one scrape: the HTTP status of its
\* pages and, when that is 200, the rows its listing formats to.
HttpStatuses == {200, 403, 500}
AssortmentRows ==
    {[manufacturer |-> "BB", code |-> "002", name |-> "Assortment Pack",
      manufacturer_url |-> "uA"]}
SiteRows(m) == {row \in Rows \cup AssortmentRows : row.manufacturer = m}
\* The Origin page always yields colours: the parsed ones or the known list.
SiteListings(m) ==
    {l \in SeqsUpTo(SiteRows(m), MaxListing) : m = "OR" => l # <<>>}
SitesOf(m) ==
    {[status |-> 200, rows |-> l] : l \in SiteListings(m)}
        \cup {[status |-> c, rows |-> <<>>] : c \in HttpStatuses \ {200}}

\* boro_batch.scrape + format_products_for_csv: any HTTP error but 404 is raised.
boro_batch_scrape(site) ==
    IF site.status = 200 THEN [raised |-> FALSE, csv_rows |-> site.rows]
    ELSE [raised |-> TRUE, csv_rows |-> <<>>]

\* origin.scrape_boro_stix_page: the colours, None on bot protection, [] on any
\* other error.
scrape_boro_stix_page(site) ==
    IF site.status = 200 THEN [none |-> FALSE, colors |-> site.rows]
    ELSE IF is_bot_protection_error(site.status) THEN [none |-> TRUE, colors |-> <<>>]
    ELSE [none |-> FALSE, colors |-> <<>>]

\* origin.scrape + format_products_for_csv: `if colors is None: return [], []`
origin_scrape(site) ==
    LET colors == scrape_boro_stix_page(site)
    IN  IF colors.none THEN [raised |-> FALSE, csv_rows |-> <<>>]
        ELSE [raised |-> FALSE, csv_rows |-> colors.colors]

\* scrape_manufacturer: calls the module's scrape and re-raises what it raises.
scrape_manufacturer(mfr_code, sites) ==
    IF mfr_code = "BB" THEN boro_batch_scrape(sites[mfr_code])
    ELSE origin_scrape(sites[mfr_code])

\* manufacturers_to_scrape
ManufacturersToScrape(mfr) == IF mfr # "None" THEN <<mfr>> ELSE Registry

SeqRange(s) == {s[i] : i \in 1..Len(s)}

\* The orders in which as_completed can hand back the submitted futures.
CompletionOrders(mfrs) ==
    {order \in [1..Len(mfrs) -> SeqRange(mfrs)] : SeqRange(order) = SeqRange(mfrs)}

\* A collection that treats the first failed task as the end of the results.
RECURSIVE CollectUntilFailure(_, _, _)
CollectUntilFailure(order, sites, all_csv_rows) ==
    IF order = <<>> THEN [raised |-> FALSE, rows |-> all_csv_rows]
    ELSE LET result == scrape_manufacturer(Head(order), sites)
         IN  IF result.raised THEN [raised |-> FALSE, rows |-> all_csv_rows]
             ELSE CollectUntilFailure(Tail(order), sites, all_csv_rows \o result.csv_rows)

\* for future in as_completed(...): extend all_csv_rows, or return False on the
\* first exception.
RECURSIVE CollectResults(_, _, _)
CollectResults(order, sites, all_csv_rows) ==
    IF order = <<>> THEN [raised |-> FALSE, rows |-> all_csv_rows]
    ELSE LET result == scrape_manufacturer(Head(order), sites)
         IN  IF result.raised THEN [raised |-> TRUE, rows |-> <<>>]
             ELSE CollectResults(Tail(order), sites, all_csv_rows \o result.csv_rows)

\* 'assortment' in row.get('name', '').lower(), on the names of the model
IsAssortment(row) == row.name = "Assortment Pack"

\* combined_glass_scraper.main: its return value and the CSV it writes.  It writes
\* no other file.
combined_main(mfr, sites, order) ==
    LET collected == CollectResults(order, sites, <<>>)
    IN  IF collected.raised THEN [success |-> FALSE, csv |-> <<>>]
        ELSE [success |-> TRUE,
              csv |-> SelectSeq(collected.rows, LAMBDA row : ~IsAssortment(row))]

\* ------------------------------------------------------------------- main
\* parser.add_argument('--include-discontinued', action='store_true', default=True)
ParseIncludeDiscontinued(flag_given) == TRUE

\* What step 1 of main leaves behind: the combined scraper's return value, the CSV
\* it wrote, and the two side files main looks for (absent: None and []).
Step1Failed == [success |-> FALSE, csv |-> <<>>, scraped |-> NoneScraped, bot |-> {}]
Step1Ok(csv, scraped, bot) == [success |-> TRUE, csv |-> csv, scraped |-> scraped, bot |-> bot]

\* Step 1 of main with the combined scraper run for real: the two side files are
\* looked for under names nothing writes, so os.path.exists finds neither.
ScrapeStep1(mfr, sites, order) ==
    LET scraper == combined_main(mfr, sites, order)
    IN  IF scraper.success THEN Step1Ok(scraper.csv, NoneScraped, {}) ELSE Step1Failed

\* One run of update_database.main from the store file `file` on day `day`.
MainRun(file, day, excl, ovr, flags, step1) ==
    LET loaded == LoadDatabase(file)
        r == Reconcile(loaded, step1.csv, day, step1.scraped, step1.bot, excl, ovr)
        saved1 == StoreAfterUpdate(file, r.products, flags.dry_run)
        a == IF flags.dry_run
             THEN [raised |-> FALSE, products |-> r.products, assigned |-> 0, collisions |-> 0]
             ELSE assign_stable_ids(r.products)
        saved2 == IF ~flags.dry_run /\ ~a.raised /\ a.assigned > 0
                  THEN SavedFile(a.products) ELSE saved1
        commits == /\ flags.auto_commit
                   /\ ~flags.dry_run
                   /\ r.stats.new + r.stats.updated + r.stats.discontinued > 0
        quiet == [ok |-> FALSE, stats |-> ZeroStats, changes |-> <<>>,
                  after_update |-> loaded, assigned |-> 0, committed |-> FALSE]
    IN  IF ~step1.success
        THEN [rc |-> 1, disk |-> file, products |-> EmptyMap, export_file |-> NoFile,
              events |-> <<"scrape_failed">>] @@ quiet
        ELSE IF ~r.ok
        THEN [rc |-> 1, disk |-> file, products |-> loaded, export_file |-> NoFile,
              events |-> <<"scrape", "load", "print_report">>] @@ quiet
        ELSE IF a.raised
        THEN [rc |-> 1, disk |-> saved1, products |-> a.products, export_file |-> NoFile,
              ok |-> TRUE, stats |-> r.stats, changes |-> r.changes,
              after_update |-> r.products, assigned |-> a.assigned, committed |-> FALSE,
              events |-> <<"scrape", "load", "save", "print_summary", "assign", "crash">>]
        ELSE [rc |-> 0, disk |-> saved2, products |-> a.products,
              export_file |-> IF flags.export
                              THEN export_to_json(a.products,
                                       ParseIncludeDiscontinued(flags.include_flag),
                                       flags.strip_metadata)
                              ELSE NoFile,
              ok |-> TRUE, stats |-> r.stats, changes |-> r.changes,
              after_update |-> r.products, assigned |-> a.assigned, committed |-> commits,
              events |-> <<"scrape", "load">>
                         \o (IF flags.dry_run THEN <<>> ELSE <<"save">>)
                         \o <<"print_summary">>
                         \o (IF flags.dry_run THEN <<>> ELSE <<"assign">>)
                         \o (IF saved2 # saved1 \/ (~flags.dry_run /\ a.assigned > 0)
                             THEN <<"save">> ELSE <<>>)
                         \o (IF flags.export THEN <<"export">> ELSE <<>>)
                         \o (IF commits THEN <<"commit">> ELSE <<>>)]

\* ---------------------------------------------------------------- actions
NoCall == [op |-> "none"]

\* Command lines of update_database.py (the scraper's own flags aside).
FlagSets ==
    {[dry_run |-> d, export |-> e, include_flag |-> FALSE, strip_metadata |-> FALSE,
      auto_commit |-> c, mfr |-> "None"] : d \in BOOLEAN, e \in BOOLEAN, c \in BOOLEAN}

\* Command lines with --mfr given or not.
ScrapeFlagSets == {[f EXCEPT !.mfr = m] : f \in FlagSets, m \in {"None"} \cup Manufacturers}

\* The sites the run's scrapers visit, each answering in one of its ways.
NoSites == [m \in {} |-> [status |-> 200, rows |-> <<>>]]
SiteStates(mfrs) ==
    {sites \in [SeqRange(mfrs) -> UNION {SitesOf(m) : m \in Manufacturers}] :
        \A m \in SeqRange(mfrs) : sites[m] \in SitesOf(m)}

Init ==
    /\ disk = NoFile
    /\ excluded_urls = {}
    /\ sku_overrides = EmptyMap
    /\ today = 1
    /\ work = 0
    /\ pc = "idle"
    /\ products = EmptyMap
    /\ export_file = NoFile
    /\ last = NoCall

\* python3 update_database.py <flags>, run to its exit.
RunMain(flags, step1, sites) ==
    /\ work + 1 + Len(step1.csv) <= MaxWork
    /\ \E r \in {MainRun(disk, today, excluded_urls, sku_overrides, flags, step1)} :
           /\ disk' = r.disk
           /\ products' = r.products
           /\ export_file' = r.export_file
           /\ last' = [op |-> "main", flags |-> flags, step1 |-> step1, sites |-> sites,
                       day |-> today,
                       disk_before |-> disk, rc |-> r.rc, ok |-> r.ok, stats |-> r.stats,
                       changes |-> r.changes, after_update |-> r.after_update,
                       assigned |-> r.assigned, committed |-> r.committed,
                       events |-> r.events]
    /\ work' = work + 1 + Len(step1.csv)
    /\ pc' = "exited"
    /\ UNCHANGED <<excluded_urls, sku_overrides, today>>

\* main with step 1 as the environment leaves it: any CSV, any side files.
Main ==
    /\ pc = "idle"
    /\ work < MaxWork
    /\ \E flags \in FlagSets :
          \/ RunMain(flags, Step1Failed, NoSites)
          \/ \E csv \in Batches, scope \in ScopeArgs :
                RunMain(flags, Step1Ok(csv, scope[1], scope[2]), NoSites)

\* main end to end: the scraper runs against the sites as they answer today.
MainScrape ==
    /\ pc = "idle"
    /\ work < MaxWork
    /\ \E flags \in ScrapeFlagSets :
          \E sites \in SiteStates(ManufacturersToScrape(flags.mfr)),
             order \in CompletionOrders(ManufacturersToScrape(flags.mfr)) :
                RunMain(flags, ScrapeStep1(flags.mfr, sites, order), sites)

\* The process is gone and the operator has collected the artifact it exported.
Exit ==
    /\ pc = "exited"
    /\ pc' = "idle"
    /\ products' = EmptyMap
    /\ export_file' = NoFile
    /\ last' = NoCall
    /\ UNCHANGED <<disk, excluded_urls, sku_overrides, today, work>>

\* Midnight passes between two runs.
Tick ==
    /\ pc = "idle"
    /\ work > 0
    /\ today < MaxDay
    /\ today' = today + 1
    /\ UNCHANGED <<disk, excluded_urls, sku_overrides, work, pc, products, export_file, last>>

Next ==
    \/ Main
    \/ Exit
    \/ Tick

Spec == Init /\ [][Next]_vars

\* The updater as it is deployed: every run scrapes the sites itself.
NextScrape ==
    \/ MainScrape
    \/ Exit
    \/ Tick

SpecScrape == Init /\ [][NextScrape]_vars

\* ------------------------------------------------- keys whose hashes collide
\* Three Boro Batch codes: the SHA-256 prefixes of the first two are equal and
\* that of the third is one more.
CollidingCodes == {"2678167", "2912507", "5620400"}
CollidingRows ==
    {[manufacturer |-> "BB", code |-> c, name |-> "Blue", manufacturer_url |-> "uA"] :
        c \in CollidingCodes}
CollidingBatches == SeqsUpTo(CollidingRows, MaxBatch)

\* main on a scrape that lists products with these codes.
MainColliding ==
    /\ pc = "idle"
    /\ work < MaxWork
    /\ \E flags \in FlagSets, csv \in CollidingBatches :
          RunMain(flags, Step1Ok(csv, NoneScraped, {}), NoSites)

NextIds ==
    \/ MainColliding
    \/ Exit

SpecIds == Init /\ [][NextIds]_vars

\* ------------------------------------------------ exports of tagged records
\* Rows as the scrapers format them: tags from combine_tags (the quoted sentinel,
\* or the sorted tags quoted and joined) or an empty cell, synonyms empty or in
\* the same quoted format, and a description.
TaggedKeys == {<<"BB", "001">>, <<"OR", "001">>}
TagColumns ==
    {[tags |-> FormatTags(<<>>), synonyms |-> EmptyString],
     [tags |-> FormatTags(<<Blue>>), synonyms |-> EmptyString],
     [tags |-> FormatTags(<<Aqua, Blue>>), synonyms |-> FormatTags(<<Azure>>)],
     [tags |-> EmptyString, synonyms |-> EmptyString]}
TaggedRows ==
    {[manufacturer |-> k[1], code |-> k[2], name |-> "Blue", manufacturer_url |-> "uA",
      manufacturer_description |-> "Deep blue rod",
      tags |-> c.tags, synonyms |-> c.synonyms] : k \in TaggedKeys, c \in TagColumns}
TaggedBatches == SeqsUpTo(TaggedRows, MaxBatch)

\* Command lines that export, with each of the export's two switches given or not.
ExportFlagSets ==
    {[dry_run |-> d, export |-> TRUE, include_flag |-> i, strip_metadata |-> s,
      auto_commit |-> FALSE, mfr |-> "None"] :
        d \in BOOLEAN, i \in BOOLEAN, s \in BOOLEAN}

\* main --export on a scrape of tagged rows.
MainExport ==
    /\ pc = "idle"
    /\ work < MaxWork
    /\ \E flags \in ExportFlagSets, csv \in TaggedBatches :
          RunMain(flags, Step1Ok(csv, NoneScraped, {}), NoSites)

\* def export_to_json(self, output_filepath, include_discontinued=True, strip_metadata=False)
IncludeDiscontinuedDefault == TRUE
StripMetadataDefault == FALSE

\* A keyword argument a call passes or leaves to its default.
Omitted == [given |-> FALSE, value |-> FALSE]
Given(value) == [given |-> TRUE, value |-> value]
KeywordArguments == {Omitted} \cup {Given(b) : b \in BOOLEAN}
ArgumentValue(argument, default) == IF argument.given THEN argument.value ELSE default

\* ProductDatabase(DATABASE_FILE).export_to_json(path, ...) called on its own, as
\* the test suite and other scripts call it.
ExportToJson ==
    /\ pc = "idle"
    /\ work < MaxWork
    /\ \E include_discontinued \in KeywordArguments, strip_metadata \in KeywordArguments :
          /\ products' = LoadDatabase(disk)
          /\ export_file' =
                export_to_json(LoadDatabase(disk),
                               ArgumentValue(include_discontinued, IncludeDiscontinuedDefault),
                               ArgumentValue(strip_metadata, StripMetadataDefault))
          /\ last' = [op |-> "export_to_json",
                      include_discontinued |-> include_discontinued,
                      strip_metadata |-> strip_metadata]
    /\ work' = work + 1
    /\ pc' = "exited"
    /\ UNCHANGED <<disk, excluded_urls, sku_overrides, today>>

NextExport ==
    \/ MainExport
    \/ ExportToJson
    \/ Exit
    \/ Tick

SpecExport == Init /\ [][NextExport]_vars

\* ------------------------------------------- generate_stable_id on its own
\* Bytes a digest is drawn from, and the IDs already assigned around a candidate:
\* none, the IDs `n` earlier resolutions of the same candidate took, a run of
\* `n` neighbours, or every ID with the candidate's first five characters.
ByteValues == {0, 44, 164, 255}
Digests == [1..4 -> ByteValues]

OffsetId(stable_id, offset) ==
    [stable_id EXCEPT ![Len(stable_id)] =
        Alphabet[((AlphabetIndex(stable_id[Len(stable_id)]) + offset) % Base) + 1]]
SiblingIds(stable_id) == {OffsetId(stable_id, i) : i \in 0..(Base - 1)}
Triangular(n) == (n * (n + 1)) \div 2
ExistingIdSets(candidate) ==
    {{}, SiblingIds(candidate)}
        \cup {{OffsetId(candidate, Triangular(i)) : i \in 0..n} : n \in 0..MaxTaken}
        \cup {{OffsetId(candidate, i) : i \in 0..n} : n \in 0..MaxTaken}

\* A call of generate_stable_id with a key of that digest, run to its return or
\* its ValueError.
GenerateStableId ==
    /\ pc = "idle"
    /\ \E hash_bytes \in Digests :
          \E existing_ids \in ExistingIdSets(CandidateOf(hash_bytes)) :
             \E r \in {generate_from_digest(hash_bytes, existing_ids)} :
                last' = [op |-> "generate_stable_id", hash_bytes |-> hash_bytes,
                         existing_ids |-> existing_ids,
                         original_id |-> CandidateOf(hash_bytes), raised |-> r.raised,
                         stable_id |-> r.id]
    /\ pc' = "returned"
    /\ UNCHANGED <<disk, excluded_urls, sku_overrides, today, work, products, export_file>>

\* The caller takes the result.
Return ==
    /\ pc = "returned"
    /\ pc' = "idle"
    /\ last' = NoCall
    /\ UNCHANGED <<disk, excluded_urls, sku_overrides, today, work, products, export_file>>

NextGen ==
    \/ GenerateStableId
    \/ Return

SpecGen == Init /\ [][NextGen]_vars

\* ------------------------------------- the exclusion and override side files
\* excluded_urls.txt and sku_overrides.txt as the operator may have edited them.
ExclusionSets == {{}, {"uB"}}
OverrideMaps == {EmptyMap, "uA" :> "002"}

\* Command lines that only update, saving or not.
UpdateFlagSets ==
    {[dry_run |-> d, export |-> FALSE, include_flag |-> FALSE, strip_metadata |-> FALSE,
      auto_commit |-> FALSE, mfr |-> "None"] : d \in BOOLEAN}

\* The operator rewrites excluded_urls.txt between two runs.
EditExcludedUrls ==
    /\ pc = "idle"
    /\ work < MaxWork
    /\ excluded_urls' \in ExclusionSets \ {excluded_urls}
    /\ UNCHANGED <<disk, sku_overrides, today, work, pc, products, export_file, last>>

\* The operator rewrites sku_overrides.txt between two runs.
EditSkuOverrides ==
    /\ pc = "idle"
    /\ work < MaxWork
    /\ sku_overrides' \in OverrideMaps \ {sku_overrides}
    /\ UNCHANGED <<disk, excluded_urls, today, work, pc, products, export_file, last>>

\* main with the side files as they are now; every manufacturer was scraped.
MainFiles ==
    /\ pc = "idle"
    /\ work < MaxWork
    /\ \E flags \in UpdateFlagSets, csv \in Batches :
          RunMain(flags, Step1Ok(csv, NoneScraped, {}), NoSites)

NextFiles ==
    \/ EditExcludedUrls
    \/ EditSkuOverrides
    \/ MainFiles
    \/ Exit
    \/ Tick

SpecFiles == Init /\ [][NextFiles]_vars

\* ------------------------------- the two duplicate passes called directly
\* Row lists as a caller may hand them over: a row has its URL column filled,
\* empty, or (a hand-built dict, as in the test suite) missing.
ListedKeys == {<<"BB", "001">>, <<"BB", "002">>}
ListedRows ==
    {[manufacturer |-> k[1], code |-> k[2], name |-> "Blue"] : k \in ListedKeys}
    \cup {[manufacturer |-> k[1], code |-> k[2], name |-> "Blue", manufacturer_url |-> u] :
             k \in ListedKeys, u \in {""} \cup Urls}
RowLists == SeqsUpTo(ListedRows, MaxRows)

\* db.deduplicate_same_url(products_csv)
DeduplicateSameUrl ==
    /\ pc = "idle"
    /\ \E products_csv \in RowLists :
          last' = [op |-> "deduplicate_same_url", products_csv |-> products_csv,
                   deduplicated |-> deduplicate_same_url(products_csv)]
    /\ pc' = "returned"
    /\ UNCHANGED <<disk, excluded_urls, sku_overrides, today, work, products, export_file>>

\* db.detect_duplicates(new_products_csv)
DetectDuplicates ==
    /\ pc = "idle"
    /\ \E new_products_csv \in RowLists :
          last' = [op |-> "detect_duplicates", new_products_csv |-> new_products_csv,
                   has_duplicates |-> detect_duplicates(new_products_csv)]
    /\ pc' = "returned"
    /\ UNCHANGED <<disk, excluded_urls, sku_overrides, today, work, products, export_file>>

\* The two passes in a row, as update_from_scraped_data runs them on a batch read
\* from a CSV file (every row has the URL column).
DeduplicateThenDetect ==
    /\ pc = "idle"
    /\ \E products_csv \in RowLists :
          /\ \A i \in 1..Len(products_csv) : "manufacturer_url" \in DOMAIN products_csv[i]
          /\ \E new_products \in {deduplicate_same_url(products_csv)} :
                last' = [op |-> "update_from_scraped_data", products_csv |-> products_csv,
                         new_products |-> new_products,
                         has_duplicates |-> detect_duplicates(new_products)]
    /\ pc' = "returned"
    /\ UNCHANGED <<disk, excluded_urls, sku_overrides, today, work, products, export_file>>

NextDedup ==
    \/ DeduplicateSameUrl
    \/ DetectDuplicates
    \/ DeduplicateThenDetect
    \/ Return

SpecDedup == Init /\ [][NextDedup]_vars

\* ------------------------------------------ CSV files with one more column
\* The CSV handed to update_from_scraped_data, written with or without the
\* stock_type column (csv.DictReader gives every row of a file the same fields).
WithStockType(csv) == [i \in 1..Len(csv) |-> csv[i] @@ [stock_type |-> "available"]]
ColumnBatches == Batches \cup {WithStockType(csv) : csv \in Batches}

\* main on a CSV of either layout.
MainColumns ==
    /\ pc = "idle"
    /\ work < MaxWork
    /\ \E flags \in UpdateFlagSets, csv \in ColumnBatches :
          RunMain(flags, Step1Ok(csv, NoneScraped, {}), NoSites)

NextColumns ==
    \/ MainColumns
    \/ Exit
    \/ Tick

SpecColumns == Init /\ [][NextColumns]_vars

\* ---------------------------------------------------------------- properties
\* A run of main has just exited; `last` describes it.
RunExited == pc = "exited"

\* The products map the run loaded, and the one update_from_scraped_data left.
Before == LoadDatabase(last.disk_before)
After == last.after_update

\* The batch after exclusion, SKU override and same-URL dedup, and its key set.
PreBatch == Preprocess(excluded_urls, sku_overrides, last.step1.csv)
BatchKeys == {RowKey(PreBatch[i]) : i \in 1..Len(PreBatch)}

\* The manufacturer is covered by the run's sweep.
InScope(m) ==
    /\ ~last.step1.scraped.given \/ m \in last.step1.scraped.mfrs
    /\ m \notin last.step1.bot

\* The record went from available to discontinued in the run.
Discontinues(k) ==
    /\ k \in DOMAIN Before
    /\ Before[k].status = "available"
    /\ After[k].status = "discontinued"

\* C1: no deletion.  Whatever the batch, the dry-run flag and the scoping
\* arguments, every key of the store before update_from_scraped_data is a key
\* of the store after it, stable-ID assignment keeps every key, and the store
\* file a run leaves holds every key of the store file it found.
C1_NoDeletion ==
    RunExited =>
        /\ DOMAIN LoadDatabase(last.disk_before) \subseteq DOMAIN LoadDatabase(disk)
        /\ last.step1.success =>
              /\ DOMAIN Before \subseteq DOMAIN After
              /\ DOMAIN After \subseteq DOMAIN products

\* C1's case: a pass on a non-empty store that creates a record and sweeps another.
C1_Witness ==
    /\ RunExited
    /\ last.ok
    /\ last.stats.new > 0
    /\ last.stats.discontinued > 0
    /\ \E k \in DOMAIN Before : k \notin BatchKeys /\ k \in DOMAIN LoadDatabase(disk)

\* Two rows of the batch with the same (manufacturer, code) and different URLs.
HasUrlConflict(rows) ==
    \E i, j \in 1..Len(rows) :
        /\ i < j
        /\ rows[i].manufacturer = rows[j].manufacturer
        /\ rows[i].code = rows[j].code
        /\ RowUrl(rows[i]) # RowUrl(rows[j])

\* C2: conflict aborts before any mutation.  When the preprocessed batch holds
\* two rows with the same (manufacturer, code) and different manufacturer_url,
\* the pass returns no stats, the in-memory products map and the store file are
\* what they were, and main exits 1 without stable-ID assignment, export or
\* commit.
C2_ConflictAbortsBeforeMutate ==
    (RunExited /\ last.step1.success /\ HasUrlConflict(PreBatch)) =>
        /\ detect_duplicates(PreBatch)
        /\ ~last.ok
        /\ products = Before
        /\ After = Before
        /\ disk = last.disk_before
        /\ last.rc = 1
        /\ \A i \in 1..Len(last.events) :
              last.events[i] \notin {"save", "assign", "export", "commit"}
        /\ export_file = NoFile
        /\ ~last.committed

\* C2's case: a conflicting batch met a non-empty store in a run asked to save,
\* export and commit.
C2_Witness ==
    /\ RunExited
    /\ last.step1.success
    /\ HasUrlConflict(PreBatch)
    /\ DOMAIN Before # {}
    /\ ~last.flags.dry_run
    /\ last.flags.export
    /\ last.flags.auto_commit
    /\ last.rc = 1

\* C3: a dry run never writes the store file.  With --dry-run the file is the
\* one the run found, update_from_scraped_data does not save, and main runs
\* neither stable-ID assignment nor the second save.
C3_DryRunNeverWritesStore ==
    (RunExited /\ last.flags.dry_run) =>
        /\ disk = last.disk_before
        /\ \A i \in 1..Len(last.events) : last.events[i] \notin {"save", "assign"}
        /\ last.assigned = 0
        /\ last.step1.success => products = After

\* C3's case: a dry run whose pass changed the in-memory store.
C3_Witness ==
    /\ RunExited
    /\ last.flags.dry_run
    /\ last.ok
    /\ last.stats.new > 0
    /\ last.stats.discontinued > 0
    /\ After # Before
    /\ disk = last.disk_before

\* C4: a dry run has no persistent effect.  With --dry-run and any other flags,
\* the store file and the export artifact are what they were before the run.
C4_DryRunNoPersistentEffect ==
    (RunExited /\ last.flags.dry_run) =>
        /\ disk = last.disk_before
        /\ export_file = NoFile
        /\ ~last.committed

\* C5: discontinue and reactivate.  A pass whose batch omits an available
\* product of an in-scope manufacturer leaves it discontinued with
\* discontinued_date set to the day of the pass; a pass whose batch includes a
\* stored product leaves it available with no discontinued_date, whatever its
\* status was and whether or not its fields changed.
C5_DiscontinueReactivate ==
    (RunExited /\ last.ok) =>
        \A k \in DOMAIN Before :
            /\ (/\ Before[k].status = "available"
                /\ k \notin BatchKeys
                /\ InScope(ProductMfr(Before[k])))
                  => /\ After[k].status = "discontinued"
                     /\ After[k].discontinued_date = last.day
                     /\ After[k].discontinued_date # NoDate
            /\ k \in BatchKeys
                  => /\ After[k].status = "available"
                     /\ After[k].discontinued_date = NoDate
                     /\ products[k].status = "available"
                     /\ products[k].discontinued_date = NoDate

\* C5's case: a product discontinued on an earlier day is in the batch again,
\* with the same fields, and is available after the pass.
C5_Witness ==
    /\ RunExited
    /\ last.ok
    /\ \E k \in DOMAIN Before :
          /\ Before[k].status = "discontinued"
          /\ Before[k].discontinued_date < last.day
          /\ k \in BatchKeys
          /\ \E i \in 1..Len(PreBatch) :
                RowKey(PreBatch[i]) = k /\ ChangedFields(Before[k], PreBatch[i]) = {}
          /\ After[k].status = "available"

\* The pass applied once more to the store `prods`, same batch, day and scope.
Reapplied(prods) ==
    Reconcile(prods, last.step1.csv, last.day, last.step1.scraped, last.step1.bot,
              excluded_urls, sku_overrides)

\* C6: idempotence.  Applying a conflict-free batch a second time, on the same
\* day with the same scoping arguments, leaves the products map the first pass
\* left and reports new = 0, updated = 0, discontinued = 0 and every batch row
\* unchanged.
C6_IdempotentReapply ==
    (RunExited /\ last.ok) =>
        /\ Reapplied(After).ok
        /\ Reapplied(After).products = After
        /\ Reapplied(After).stats =
              [new |-> 0, updated |-> 0, discontinued |-> 0, unchanged |-> Len(PreBatch)]
        /\ Reapplied(products).products = products

\* C6's case: the first pass updated one record and discontinued another.
C6_Witness ==
    /\ RunExited
    /\ last.ok
    /\ last.stats.updated > 0
    /\ last.stats.discontinued > 0
    /\ Reapplied(After).products = After

\* C7: sweep scoping.  When scraped_manufacturers is a list, no record of a
\* manufacturer outside it goes to discontinued, and each such record whose key
\* is not in the batch is left exactly as it was.
C7_SweepScoped ==
    (RunExited /\ last.ok /\ last.step1.scraped.given) =>
        \A k \in DOMAIN Before :
            ProductMfr(Before[k]) \notin last.step1.scraped.mfrs =>
                /\ ~Discontinues(k)
                /\ k \notin BatchKeys => After[k] = Before[k]

\* C7's case: a partial pass swept a record of a listed manufacturer and left
\* an available, absent record of an unlisted one alone.
C7_Witness ==
    /\ RunExited
    /\ last.ok
    /\ last.step1.scraped.given
    /\ last.stats.discontinued > 0
    /\ \E k \in DOMAIN Before :
          /\ ProductMfr(Before[k]) \notin last.step1.scraped.mfrs
          /\ Before[k].status = "available"
          /\ k \notin BatchKeys
          /\ After[k] = Before[k]

\* C8: bot-protected manufacturers are not swept.  In a pass that lists a
\* manufacturer as bot-protected no record of it goes to discontinued, whether
\* or not the manufacturer is also in scraped_manufacturers.
C8_BotProtectedNotSwept ==
    (RunExited /\ last.ok) =>
        \A k \in DOMAIN After :
            (ProductMfr(After[k]) \in last.step1.bot /\ After[k].status = "discontinued")
                => (k \in DOMAIN Before /\ Before[k].status = "discontinued")

\* C8's case: an available record of a bot-protected manufacturer that is also
\* in scraped_manufacturers was absent from the batch and is still available.
C8_Witness ==
    /\ RunExited
    /\ last.ok
    /\ \E k \in DOMAIN Before :
          /\ ProductMfr(Before[k]) \in last.step1.bot
          /\ last.step1.scraped.given
          /\ ProductMfr(Before[k]) \in last.step1.scraped.mfrs
          /\ Before[k].status = "available"
          /\ k \notin BatchKeys
          /\ After[k].status = "available"

\* The manufacturer's scraper met a bot-protection status in the run.
HitBotProtection(m) ==
    /\ m \in DOMAIN last.sites
    /\ is_bot_protection_error(last.sites[m].status)

\* C9: bot protection end to end.  When a manufacturer's scraper meets HTTP
\* 403, 406 or 429 during a run of main, none of its available records is
\* discontinued by the run, and a run that goes on to the update has the
\* manufacturer in its bot-protected list.
C9_BotProtectionTracked ==
    RunExited =>
        \A m \in Manufacturers :
            HitBotProtection(m) =>
                /\ \A k \in DOMAIN Before : ProductMfr(Before[k]) = m => ~Discontinues(k)
                /\ last.step1.success => m \in last.step1.bot

\* C9's case: the site of a manufacturer with an available record answered
\* with a bot-protection status, and the run discontinued the record.
C9_BlockedCatalogSwept ==
    /\ RunExited
    /\ \E k \in DOMAIN Before :
          /\ HitBotProtection(ProductMfr(Before[k]))
          /\ Discontinues(k)
          /\ disk.exists
          /\ disk.products[k].status = "discontinued"

\* C10: --mfr restricts the sweep.  A run of main with --mfr X scrapes X only
\* and discontinues no record of another manufacturer.
C10_MfrRestrictsSweep ==
    (RunExited /\ last.flags.mfr # "None") =>
        /\ DOMAIN last.sites = {last.flags.mfr}
        /\ \A i \in 1..Len(last.step1.csv) :
              last.step1.csv[i].manufacturer = last.flags.mfr
        /\ \A k \in DOMAIN Before :
              ProductMfr(Before[k]) # last.flags.mfr => ~Discontinues(k)

\* C10's case: a run with --mfr given, whose site answered 200, discontinued
\* an available record of another manufacturer.
C10_OtherManufacturerSwept ==
    /\ RunExited
    /\ last.flags.mfr # "None"
    /\ last.sites[last.flags.mfr].status = 200
    /\ \E k \in DOMAIN Before :
          /\ ProductMfr(Before[k]) # last.flags.mfr
          /\ Discontinues(k)
          /\ disk.exists
          /\ disk.products[k].status = "discontinued"

\* C11: sweep postcondition.  After a successful pass every record that was
\* available, whose key is not in the batch and whose manufacturer is in scope
\* is discontinued with discontinued_date = the day of the pass; a record that
\* was already discontinued and is not in the batch keeps its earlier date; with
\* an empty batch every in-scope available record is discontinued.
C11_SweepPostcondition ==
    (RunExited /\ last.ok) =>
        /\ \A k \in DOMAIN Before \ BatchKeys :
              /\ (Before[k].status = "available" /\ InScope(ProductMfr(Before[k])))
                    => /\ After[k].status = "discontinued"
                       /\ After[k].discontinued_date = last.day
              /\ Before[k].status = "discontinued"
                    => /\ After[k].status = "discontinued"
                       /\ After[k].discontinued_date = Before[k].discontinued_date
        /\ PreBatch = <<>> =>
              \A k \in DOMAIN Before :
                  InScope(ProductMfr(Before[k])) => After[k].status = "discontinued"
        /\ last.stats.discontinued =
              Cardinality({k \in DOMAIN Before \ BatchKeys :
                              /\ Before[k].status = "available"
                              /\ InScope(ProductMfr(Before[k]))})

\* C11's case: an empty batch on a later day discontinued one record and left
\* the earlier date of another, discontinued before, in place.
C11_Witness ==
    /\ RunExited
    /\ last.ok
    /\ PreBatch = <<>>
    /\ \E k, j \in DOMAIN Before :
          /\ Before[k].status = "available"
          /\ After[k].status = "discontinued"
          /\ After[k].discontinued_date = last.day
          /\ Before[j].status = "discontinued"
          /\ Before[j].discontinued_date < last.day
          /\ After[j].discontinued_date = Before[j].discontinued_date

\* The manufacturer's scraper met an error that is not bot protection.
FailedOutright(m) ==
    /\ m \in DOMAIN last.sites
    /\ last.sites[m].status # 200
    /\ ~is_bot_protection_error(last.sites[m].status)

\* C12: fail-fast on upstream failure.  When retrieval fails outright for a
\* manufacturer the run scrapes, the combined scraper returns False and writes
\* no CSV, and main exits non-zero without loading, changing or saving the
\* store, so the run discontinues nothing.
C12_FailFastOnUpstreamFailure ==
    (RunExited /\ \E m \in Manufacturers : FailedOutright(m)) =>
        /\ ~last.step1.success
        /\ last.rc = 1
        /\ last.events = <<"scrape_failed">>
        /\ disk = last.disk_before
        /\ \A k \in DOMAIN Before : ~Discontinues(k)

\* C12's case: a site answered with a server error, the run went on, and an
\* available record of that manufacturer is discontinued in the store file.
C12_FailureSweptCatalog ==
    /\ RunExited
    /\ last.rc = 0
    /\ \E k \in DOMAIN Before :
          /\ FailedOutright(ProductMfr(Before[k]))
          /\ Discontinues(k)
          /\ disk.exists
          /\ disk.products[k].status = "discontinued"

\* A call of generate_stable_id has just returned or raised; `last` describes it.
Returned == pc = "returned" /\ last.op = "generate_stable_id"

\* The IDs with the candidate's first five characters that are not yet assigned.
UnusedSiblings == SiblingIds(last.original_id) \ last.existing_ids

\* C16: collision resolution succeeds when possible.  When the candidate is in
\* existing_ids, generate_stable_id changes the last character only, returns an
\* ID not in existing_ids whenever some ID with the candidate's first five
\* characters is unused, and raises ValueError only when all of them are taken.
C16_CollisionResolvedWhenPossible ==
    (Returned /\ last.original_id \in last.existing_ids) =>
        /\ SubSeq(last.stable_id, 1, 5) = SubSeq(last.original_id, 1, 5)
        /\ UnusedSiblings # {} => (~last.raised /\ last.stable_id \notin last.existing_ids)
        /\ last.raised => UnusedSiblings = {}

\* C16's case: the call raised ValueError while IDs with the candidate's first
\* five characters were still unused.
C16_RaisedWithUnusedIds ==
    /\ Returned
    /\ last.raised
    /\ Cardinality(UnusedSiblings) > 0
    /\ Cardinality(last.existing_ids) < Base

\* The integer a string of alphabet characters denotes in base `base`, most
\* significant first, as two 16-bit limbs.
RECURSIVE DecodeLimbs(_, _, _)
DecodeLimbs(digits, base, acc) ==
    IF digits = <<>> THEN acc
    ELSE LET low == acc[2] * base + AlphabetIndex(Head(digits))
         IN  DecodeLimbs(Tail(digits), base,
                         <<acc[1] * base + (low \div 65536), low % 65536>>)

\* The four bytes as a big-endian unsigned integer, in the same two limbs.
BigEndianValue(b) == <<b[1] * 256 + b[2], b[3] * 256 + b[4]>>

\* Digits, uppercase and lowercase letters, and those the alphabet leaves out.
Alphanumerics ==
    {"0", "1", "2", "3", "4", "5", "6", "7", "8", "9",
     "A", "B", "C", "D", "E", "F", "G", "H", "I", "J", "K", "L", "M", "N", "O", "P",
     "Q", "R", "S", "T", "U", "V", "W", "X", "Y", "Z",
     "a", "b", "c", "d", "e", "f", "g", "h", "i", "j", "k", "l", "m", "n", "o", "p",
     "q", "r", "s", "t", "u", "v", "w", "x", "y", "z"}
RemovedCharacters == Alphanumerics \ {Alphabet[i] : i \in 1..Len(Alphabet)}

StoreIds(prods) == {prods[k].stable_id : k \in {x \in DOMAIN prods : HasStableId(prods[x])}}

\* The record has a non-empty stable_id field.
CarriesId(product) == "stable_id" \in DOMAIN product /\ product.stable_id # <<>>

UniqueIds(prods) ==
    \A k, j \in DOMAIN prods :
        (k # j /\ HasStableId(prods[k]) /\ HasStableId(prods[j]))
            => prods[k].stable_id # prods[j].stable_id

\* C14: stable_ids are unique.  Starting from an empty store, no two records
\* share a stable_id, in memory or in the store file; the IDs one
\* assign_stable_ids call hands out are pairwise distinct and none was in the
\* store before; and generate_stable_id, given the IDs of the store, returns an
\* ID that is not among them.
C14_StableIdUnique ==
    /\ UniqueIds(LoadDatabase(disk))
    /\ RunExited =>
          /\ UniqueIds(products)
          /\ \A k \in DOMAIN products :
                (HasStableId(products[k]) /\ ~HasStableId(After[k]))
                    => products[k].stable_id \notin StoreIds(After)
          /\ Cardinality(StoreIds(products)) = Cardinality(StoreIds(After)) + last.assigned
          /\ \A row \in CollidingRows :
                \/ generate_stable_id(row.manufacturer, row.code, StoreIds(products)).raised
                \/ generate_stable_id(row.manufacturer, row.code, StoreIds(products)).id
                      \notin StoreIds(products)

\* C14's case: one assign_stable_ids call gave IDs to two records with the same
\* hash candidate.
C14_Witness ==
    /\ RunExited
    /\ last.assigned >= 2
    /\ \E k, j \in DOMAIN products :
          /\ k # j
          /\ ~HasStableId(After[k])
          /\ ~HasStableId(After[j])
          /\ HashCandidate(products[k].manufacturer, products[k].code)
                = HashCandidate(products[j].manufacturer, products[j].code)
          /\ products[k].stable_id # products[j].stable_id

\* The orders in which the keys of a products map can have been inserted.
InsertionOrders(prods) ==
    {order \in [1..Cardinality(DOMAIN prods) -> DOMAIN prods] :
        {order[i] : i \in 1..Cardinality(DOMAIN prods)} = DOMAIN prods}

ExportRan == pc = "exited" /\ export_file.exists

ExportedKeys == {RowKey(export_file.glassitems[i]) : i \in 1..export_file.item_count}

DiscontinuedKeys == {k \in DOMAIN products : products[k].status = "discontinued"}

\* The export was invoked without the include-discontinued option: a command line
\* without --include-discontinued, or a call that leaves the parameter to its default.
WithoutIncludeOption ==
    \/ last.op = "main" /\ ~last.flags.include_flag
    \/ last.op = "export_to_json" /\ ~last.include_discontinued.given

\* C18 as stated: an export invoked without the include-discontinued option
\* contains no discontinued record.
C18_NoDiscontinuedWithoutOption ==
    (ExportRan /\ WithoutIncludeOption) => ExportedKeys \cap DiscontinuedKeys = {}

\* C18 amended: the exporter omits the discontinued records exactly when it is
\* called with include_discontinued=False; a call that leaves the parameter out,
\* and every command-line export (with or without --include-discontinued), lists
\* every record of the store, the discontinued ones included.
C18_ExportFiltering ==
    ExportRan =>
        ExportedKeys =
            IF last.op = "export_to_json" /\ last.include_discontinued = Given(FALSE)
            THEN DOMAIN products \ DiscontinuedKeys
            ELSE DOMAIN products

\* An export without the option, taken from a store holding a discontinued record.
C18_Witness ==
    /\ ExportRan
    /\ WithoutIncludeOption
    /\ DiscontinuedKeys # {}

\* ------------------------------------------------------ C19: record shape
\* The export was asked to strip the tracking fields.
StripRequested ==
    \/ last.op = "main" /\ last.flags.strip_metadata
    \/ last.op = "export_to_json" /\ last.strip_metadata = Given(TRUE)

\* The stored record an exported object was made from.
StoredRecord(item) == products[RowKey(item)]

\* The array the flat quoted string stands for: formatting it again gives the string.
IsArrayOf(list, stored_str) ==
    IF stored_str = EmptyString THEN list = <<>> ELSE FormatTags(list) = stored_str

IsUnquoted(tag) == \A i \in 1..Len(tag) : tag[i] \notin {Quote, Apostrophe}

\* C19: with strip_metadata=True every exported object lacks status, added_date,
\* last_seen and discontinued_date, keeps every other stored field with its stored
\* value, carries tags as the array of the unquoted tags of the stored string
\* without empty entries and without the sentinel unknown, and carries synonyms
\* as the array of the stored synonyms.
C19_StrippedRecordShape ==
    (ExportRan /\ StripRequested) =>
        \A i \in 1..export_file.item_count :
            LET item == export_file.glassitems[i]
                stored == StoredRecord(item)
            IN  /\ DOMAIN item = DOMAIN stored \ MetadataFields
                /\ \A f \in DOMAIN item \ {"tags", "synonyms"} : item[f] = stored[f]
                /\ \A j \in 1..Len(item.tags) :
                      /\ item.tags[j] # EmptyString
                      /\ item.tags[j] # Unknown
                      /\ IsUnquoted(item.tags[j])
                /\ IF stored.tags = FormatTags(<<>>)
                   THEN item.tags = <<>>
                   ELSE IsArrayOf(item.tags, stored.tags)
                /\ IsArrayOf(item.synonyms, stored.synonyms)

\* A stripped export listing a record with an assigned ID, a description, two
\* tags and a synonym, and a record whose stored tags are the sentinel.
C19_Witness ==
    /\ ExportRan
    /\ StripRequested
    /\ \E i, j \in 1..export_file.item_count :
          /\ "stable_id" \in DOMAIN export_file.glassitems[i]
          /\ "manufacturer_description" \in DOMAIN export_file.glassitems[i]
          /\ export_file.glassitems[i].tags = <<Aqua, Blue>>
          /\ export_file.glassitems[i].synonyms = <<Azure>>
          /\ StoredRecord(export_file.glassitems[j]).tags = FormatTags(<<>>)
          /\ export_file.glassitems[j].tags = <<>>

\* ------------------------------------------------- C20: summary then save
\* Positions of a step in the record of the steps the run took.
PositionsOf(step) == {i \in 1..Len(last.events) : last.events[i] = step}

\* The run was made without --dry-run and wrote the store.
WroteStore == RunExited /\ last.op = "main" /\ ~last.flags.dry_run /\ PositionsOf("save") # {}

\* C20: in every non-dry-run run the summary is shown to the operator before the
\* persisted store is written for the first time.
C20_SummaryBeforeFirstSave ==
    WroteStore =>
        \E p \in PositionsOf("print_summary") : \A w \in PositionsOf("save") : p < w

\* A run that changed the store file and printed its summary only afterwards.
C20_SavedBeforeSummary ==
    /\ WroteStore
    /\ disk # last.disk_before
    /\ \E w \in PositionsOf("save") : \A p \in PositionsOf("print_summary") : w < p

\* ---------------------------------------- C21: identity and creation date
\* The record is stored under the key its own manufacturer and code make.
KeyMatches(prods, k) == k = get_product_key(prods[k].manufacturer, prods[k].code)

\* The record's identity and creation date are what they were.
SameIdentity(old, new) ==
    /\ new.manufacturer = old.manufacturer
    /\ new.code = old.code
    /\ new.added_date = old.added_date

\* Some row of the run's CSV had its code replaced from sku_overrides.txt.
OverrideApplied == \E i \in 1..Len(last.step1.csv) : RowUrl(last.step1.csv[i]) \in DOMAIN sku_overrides

\* C21: starting from an empty store, each record of the store file, and of the
\* store a pass leaves in memory, is stored under manufacturer + ':' + code, and
\* a pass (with or without SKU overrides, saving or not) leaves manufacturer,
\* code and added_date of every record it found as they were.
C21_IdentityImmutable ==
    /\ \A k \in DOMAIN LoadDatabase(disk) : KeyMatches(LoadDatabase(disk), k)
    /\ (RunExited /\ last.ok) =>
          /\ \A k \in DOMAIN After : KeyMatches(After, k)
          /\ \A k \in DOMAIN products : KeyMatches(products, k)
          /\ \A k \in DOMAIN Before :
                /\ SameIdentity(Before[k], After[k])
                /\ SameIdentity(Before[k], products[k])
                /\ disk.exists => SameIdentity(Before[k], LoadDatabase(disk)[k])

\* A pass on a later day whose row, with its code overridden, updates a record
\* that was discontinued and had been created on an earlier day.
C21_Witness ==
    /\ RunExited
    /\ last.ok
    /\ OverrideApplied
    /\ \E k \in BatchKeys \cap DOMAIN Before :
          /\ Before[k].added_date < last.day
          /\ Before[k].status = "discontinued"
          /\ After[k].status = "available"

\* ------------------------------------------------- C22: stats accounting
CreatedKeys == BatchKeys \ DOMAIN Before

\* The record as a pass creates it on `day`: available, added and seen that day,
\* never discontinued, no stable ID yet.
FreshlyCreated(product, day) ==
    /\ product.status = "available"
    /\ product.added_date = day
    /\ product.last_seen = day
    /\ product.discontinued_date = NoDate
    /\ "stable_id" \notin DOMAIN product

\* C22: for every successful pass, stats.new is the number of batch keys absent
\* from the store before the pass, each of them now a record that is available,
\* added and last seen today, with no discontinued date and no stable ID;
\* new + updated + unchanged is the number of rows of the preprocessed batch;
\* stats.discontinued is the number of records that went from available to
\* discontinued in the pass.
C22_StatsAccounting ==
    (RunExited /\ last.ok) =>
        /\ last.stats.new = Cardinality(CreatedKeys)
        /\ \A k \in CreatedKeys : FreshlyCreated(After[k], last.day)
        /\ last.stats.new + last.stats.updated + last.stats.unchanged = Len(PreBatch)
        /\ last.stats.discontinued = Cardinality({k \in DOMAIN Before : Discontinues(k)})

\* A pass whose batch lost a row in preprocessing, created a record and
\* discontinued another.
C22_Witness ==
    /\ RunExited
    /\ last.ok
    /\ Len(PreBatch) < Len(last.step1.csv)
    /\ last.stats.new > 0
    /\ last.stats.discontinued > 0

\* --------------------------------------- C23: what the detector reports
\* The duplicate check of a pass has returned; last.new_products is the
\* preprocessed batch it was run on.
Detected == pc = "returned" /\ last.op = "update_from_scraped_data"

SameKey(a, b) == a.manufacturer = b.manufacturer /\ a.code = b.code

\* Some key of the list is listed with two different URLs.
HasDistinctUrls(rows) ==
    \E i, j \in 1..Len(rows) :
        i < j /\ SameKey(rows[i], rows[j]) /\ RowUrl(rows[i]) # RowUrl(rows[j])

\* Some key of the list is listed twice without a URL.
HasRepeatedWithoutUrl(rows) ==
    \E i, j \in 1..Len(rows) :
        i < j /\ SameKey(rows[i], rows[j]) /\ RowUrl(rows[i]) = "" /\ RowUrl(rows[j]) = ""

DetectReturned == pc = "returned" /\ last.op = "detect_duplicates"

\* Two rows of the list have the same (manufacturer, code).
SharesManufacturerAndCode(rows) ==
    \E i, j \in 1..Len(rows) : i < j /\ SameKey(rows[i], rows[j])

DedupReturned == pc = "returned" /\ last.op = "deduplicate_same_url"

\* No two rows of the list have the same product key and the same URL.
NoSameUrlDuplicates(rows) ==
    \A i, j \in 1..Len(rows) :
        (i < j /\ SameKey(rows[i], rows[j])) => RowUrl(rows[i]) # RowUrl(rows[j])

\* Index of the first row of the list that has the key of rows[i].
FirstSeen(rows, i) == CHOOSE f \in 1..i : SameKey(rows[f], rows[i]) /\
                           \A g \in 1..(f - 1) : ~SameKey(rows[g], rows[i])

\* The rows the rule keeps: the first of each key group and every later row whose
\* URL differs from the first one's.
RetainedIndices(rows) ==
    {i \in 1..Len(rows) :
        FirstSeen(rows, i) = i \/ RowUrl(rows[i]) # RowUrl(rows[FirstSeen(rows, i)])}

RECURSIVE Pick(_, _, _)
Pick(rows, indices, i) ==
    IF i > Len(rows) THEN <<>>
    ELSE (IF i \in indices THEN <<rows[i]>> ELSE <<>>) \o Pick(rows, indices, i + 1)

\* C25: for every input row list the output of deduplicate_same_url has no two
\* rows with the same product key and the same manufacturer_url; the first-seen
\* row of each key is kept, later rows with the first-seen row's URL are dropped,
\* rows with a different URL are retained, and retained rows keep their order.
C25_DedupOutput ==
    DedupReturned =>
        /\ NoSameUrlDuplicates(last.deduplicated)
        /\ last.deduplicated = Pick(last.products_csv, RetainedIndices(last.products_csv), 1)

\* An output that lists one key with the same non-empty URL twice.
C25_SameUrlKeptTwice ==
    /\ DedupReturned
    /\ \E i, j \in 1..Len(last.deduplicated) :
          /\ i < j
          /\ SameKey(last.deduplicated[i], last.deduplicated[j])
          /\ RowUrl(last.deduplicated[i]) = RowUrl(last.deduplicated[j])
          /\ RowUrl(last.deduplicated[i]) # ""

\* ------------------------------------ C26: a row whose key already exists
\* The row of the preprocessed batch with key k, and the fields in which it
\* differs from the record stored before the pass.
BatchRow(k) == PreBatch[CHOOSE i \in 1..Len(PreBatch) : RowKey(PreBatch[i]) = k]
Differing(k) ==
    {f \in DOMAIN BatchRow(k) \cap DOMAIN Before[k] : BatchRow(k)[f] # Before[k][f]}

\* The change log has an entry of the kind for the key.
Logged(kind, k) ==
    \E j \in 1..Len(last.changes) : last.changes[j][1] = kind /\ last.changes[j][2] = k

WasDiscontinued(k) == Before[k].status = "discontinued"

ExistingKeys == BatchKeys \cap DOMAIN Before

\* C26: a row whose key already exists.  If the stored record was discontinued
\* the pass makes it available with no discontinued date, logs REACTIVATED and
\* not UPDATED, and counts it as updated whether or not a field differs.  If it
\* was available the row is logged UPDATED with the differing field names and
\* counted as updated when some compared field differs, and is counted as
\* unchanged, with last_seen the only field modified, when none differs.
C26_ExistingRowClassified ==
    (RunExited /\ last.ok) =>
        /\ \A k \in ExistingKeys :
              IF WasDiscontinued(k)
              THEN /\ After[k].status = "available"
                   /\ After[k].discontinued_date = NoDate
                   /\ Logged("REACTIVATED", k)
                   /\ ~Logged("UPDATED", k)
              ELSE IF Differing(k) # {}
              THEN /\ ~Logged("REACTIVATED", k)
                   /\ \E j \in 1..Len(last.changes) :
                         /\ last.changes[j][1] = "UPDATED"
                         /\ last.changes[j][2] = k
                         /\ last.changes[j][3] = Differing(k)
              ELSE /\ ~Logged("REACTIVATED", k)
                   /\ ~Logged("UPDATED", k)
                   /\ After[k] = [Before[k] EXCEPT !.last_seen = last.day]
        /\ last.stats.updated =
              Cardinality({k \in ExistingKeys : WasDiscontinued(k) \/ Differing(k) # {}})
        /\ last.stats.unchanged =
              Cardinality({k \in ExistingKeys : ~WasDiscontinued(k) /\ Differing(k) = {}})

\* A pass on a later day that brings back a discontinued record whose row
\* differs from it in some field.
C26_Witness ==
    /\ RunExited
    /\ last.ok
    /\ \E k \in ExistingKeys :
          WasDiscontinued(k) /\ Differing(k) # {} /\ Before[k].last_seen < last.day

\* ------------------------------------------------- C27: exclusion filter
\* The rows of the run's CSV whose URL is not in excluded_urls.txt, and the keys
\* they make once sku_overrides.txt has been applied.
IsExcluded(row) == RowUrl(row) \in excluded_urls
AdmittedRows == SelectSeq(last.step1.csv, LAMBDA row : ~IsExcluded(row))
OverriddenKey(row) ==
    get_product_key(row.manufacturer,
                    IF RowUrl(row) \in DOMAIN sku_overrides
                    THEN sku_overrides[RowUrl(row)] ELSE row.code)
AdmittedKeys == {OverriddenKey(AdmittedRows[i]) : i \in 1..Len(AdmittedRows)}

\* The pass left the record alone, or only swept it.
OnlySwept(old, new, day) ==
    \/ new = old
    \/ /\ old.status = "available"
       /\ new = [old EXCEPT !.status = "discontinued", !.discontinued_date = day]

\* C27: a row whose manufacturer_url is in the exclusion set is dropped before
\* SKU override, dedup, conflict detection and reconciliation.  It takes no part
\* in conflict detection; a key that only excluded rows make gets no record, and
\* a record under such a key is neither updated nor has its last_seen refreshed;
\* if that record was available, the sweep (every manufacturer is in scope) marks
\* it discontinued and keeps it.
C27_ExcludedRowsDropped ==
    RunExited =>
        /\ last.ok <=> ~detect_duplicates(Preprocess({}, sku_overrides, AdmittedRows))
        /\ last.ok =>
              \A k \in (DOMAIN After) \ AdmittedKeys :
                  /\ k \in DOMAIN Before
                  /\ OnlySwept(Before[k], After[k], last.day)
                  /\ Before[k].status = "available" => After[k].status = "discontinued"

\* A pass whose only row for an available record is excluded: the record, last
\* seen on an earlier day, ends discontinued.
C27_Witness ==
    /\ RunExited
    /\ last.ok
    /\ \E i \in 1..Len(last.step1.csv) :
          LET row == last.step1.csv[i]
              k == OverriddenKey(row)
          IN  /\ IsExcluded(row)
              /\ k \notin AdmittedKeys
              /\ k \in DOMAIN Before
              /\ Before[k].status = "available"
              /\ Before[k].last_seen < last.day
              /\ After[k].status = "discontinued"

\* ------------------------------------ C28: store reflects the latest scrape
\* C28: after a successful pass, for every row of the preprocessed batch the
\* record under the row's key holds, for every field present in the row, exactly
\* the row's value, fields the record did not contain before included.
C28_StoreReflectsBatch ==
    (RunExited /\ last.ok) =>
        \A i \in 1..Len(PreBatch) :
            LET row == PreBatch[i]
                record == After[RowKey(row)]
            IN  \A f \in DOMAIN row : f \in DOMAIN record /\ record[f] = row[f]

\* A successful pass whose row brings a column the stored record lacked, and
\* still lacks after the pass.
C28_NewColumnNotStored ==
    /\ RunExited
    /\ last.ok
    /\ \E i \in 1..Len(PreBatch) :
          LET row == PreBatch[i]
              k == RowKey(row)
          IN  /\ k \in DOMAIN Before
              /\ "stock_type" \in DOMAIN row
              /\ "stock_type" \notin DOMAIN Before[k]
              /\ "stock_type" \notin DOMAIN After[k]

\* ------------------------------------------- C29: status and date pairing
Statuses == {"available", "discontinued"}

\* Every record's status is one of the two, and it is discontinued exactly when
\* it has a discontinued date.
Paired(prods) ==
    \A k \in DOMAIN prods :
        /\ prods[k].status \in Statuses
        /\ prods[k].status = "discontinued" <=> prods[k].discontinued_date # NoDate

\* C29: starting from an empty store, in every state reached by any sequence of
\* passes and stable-ID assignments, in the store file, in the store a pass
\* leaves in memory and in the store after ID assignment, a record is
\* discontinued if and only if its discontinued_date is non-null, and its status
\* is available or discontinued.
C29_StatusDatePaired ==
    /\ Paired(LoadDatabase(disk))
    /\ Paired(products)
    /\ (RunExited /\ last.ok) => Paired(After)

\* A pass that brings back a discontinued record which already carries a stable
\* ID, clearing its date.
C29_Witness ==
    /\ RunExited
    /\ last.ok
    /\ \E k \in DOMAIN Before :
          /\ Before[k].status = "discontinued"
          /\ Before[k].discontinued_date # NoDate
          /\ "stable_id" \in DOMAIN Before[k]
          /\ After[k].status = "available"
          /\ After[k].discontinued_date = NoDate

\* ------------------------------------------ C30: scheduling independence
\* The run as it would have gone had the worker-pool tasks, each with the
\* outcome it had, completed in the given order.
RunCompletedIn(order) ==
    MainRun(last.disk_before, last.day, excluded_urls, sku_overrides, last.flags,
            ScrapeStep1(last.flags.mfr, last.sites, order))

Scraped == RunExited /\ last.op = "main" /\ DOMAIN last.sites # {}

\* C30: for a fixed outcome of each per-manufacturer scrape task (its rows or
\* its failure), the run's success or failure, the reconciled store as a map from
\* key to record (assigned stable IDs included), the store file and the stats
\* are the same for every order in which the tasks complete.
C30_SchedulingIndependent ==
    Scraped =>
        \A order \in CompletionOrders(ManufacturersToScrape(last.flags.mfr)) :
            LET other == RunCompletedIn(order)
            IN  /\ other.rc = last.rc
                /\ other.ok = last.ok
                /\ other.stats = last.stats
                /\ other.after_update = last.after_update
                /\ other.products = products
                /\ other.disk = disk

\* A run in which both tasks returned rows and the second manufacturer of the
\* registry completed first: its row heads the CSV, and both become records
\* with stable IDs.
C30_Witness ==
    /\ Scraped
    /\ last.rc = 0
    /\ Len(last.step1.csv) > 1
    /\ last.step1.csv[1].manufacturer = Registry[Len(Registry)]
    /\ last.stats.new > 1
    /\ \A k \in DOMAIN products : "stable_id" \in DOMAIN products[k]

====
